---- MODULE Spec2Model ----
(***************************************************************************)
(* RocketryBox backend: the realtime dashboard scheduler of the server     *)
(* entry point (app.js) and the profile cache / broadcast path of the      *)
(* admin user controller.                                                  *)
(*                                                                         *)
(* Four specifications share this module:                                  *)
(*   Spec         the dashboard scheduler: the recurring recompute timer,  *)
(*                the 5-minute re-adjust timer, shutdown, process exit;    *)
(*   ProfileSpec  the status-mutation and profile-read handlers over the   *)
(*                canonical store and the profile cache;                   *)
(*   KycSpec      updateSellerKYC beside a profile read;                   *)
(*   AdminSpec    updateSafe of the admin model (admin.model.js).          *)
(***************************************************************************)
EXTENDS Integers, FiniteSets, Sequences, TLC

(***************************************************************************)
(* Bounds of the model                                                     *)
(***************************************************************************)
\* timer handles that can be live at once
MaxTimerId == 3
\* broadcastDashboardUpdates calls that can be awaiting at once
MaxInFlight == 2
\* statusHistory entries an admin document can hold
MaxHistory == 2

(***************************************************************************)
(* DASHBOARD_UPDATE_CONFIG                                                 *)
(***************************************************************************)
minInterval == 10000
maxInterval == 120000
loadFactorThreshold == 20
\* scaleFactor 1.5 as a fraction
scaleFactorNum == 3
scaleFactorDen == 2
\* parseInt(process.env.DASHBOARD_UPDATE_INTERVAL || 30): the default
DefaultIntervalSeconds == 30
\* setTimeout(..., 10000) of gracefulShutdown
forceExitDelay == 10000
\* setInterval(..., 5 * 60 * 1000) of the re-adjust timer
readjustPeriod == 300000

\* values of process.env.DASHBOARD_UPDATE_INTERVAL as strings of decimal digits;
\* << >> is the unset (or empty) variable
EnvIntervalValues ==
  {<< >>, <<5>>, <<1, 0>>, <<3, 0>>, <<1, 2, 0>>, <<3, 0, 0>>}
\* values of process.env.NODE_ENV
NodeEnvValues == {"production", "development"}
\* connected-admin counts offered as the load signal at a re-adjust
LoadValues == {0, 20, 21, 40}
TimerIds == 1..MaxTimerId

\* parseInt of a string of decimal digits
RECURSIVE ParseInt(_)
ParseInt(digits) ==
  IF Len(digits) = 0 THEN 0
  ELSE ParseInt(SubSeq(digits, 1, Len(digits) - 1)) * 10 + digits[Len(digits)]

\* parseInt(process.env.DASHBOARD_UPDATE_INTERVAL || 30) * 1000
InitialInterval(env) ==
  (IF env = << >> THEN DefaultIntervalSeconds ELSE ParseInt(env)) * 1000

MinOf(a, b) == IF a <= b THEN a ELSE b

\* current * scaleFactor
ScaleUp(current) == (current * scaleFactorNum) \div scaleFactorDen

VARIABLES
  initialInterval,        \* DASHBOARD_UPDATE_CONFIG.initialInterval
  nodeEnv,                \* process.env.NODE_ENV
  dashboardUpdateInterval,
  updateIntervalId,       \* handle held by the module
  recomputeTimers,        \* handles of the armed recurring recompute timers
  readjustTimerArmed,     \* the anonymous 5-minute timer
  ticksInFlight,          \* timer-started broadcastDashboardUpdates awaiting
  shutdownRequested,      \* gracefulShutdown has run
  readjustedSinceStop,    \* the 5-minute timer fired after gracefulShutdown
  exited,                 \* process.exit was called
  exitCause,
  loadSignal,             \* connected admins at the last re-adjust
  prevInterval,           \* dashboardUpdateInterval before the last re-adjust
  publishedAfterStop,     \* an aggregate broadcast went out after shutdown
  lastOp,                 \* the operation that produced this state
  entity,                 \* the seller or customer the requests address
  store,                  \* canonical store: status of each seller / customer
  cache,                  \* cache store: key -> cached profile
  mut,                    \* the status-mutation request in progress
  rd,                     \* the profile-read request in progress
  invalidationFailed,     \* some cache invalidation has failed
  kycDocs,                \* canonical store: status of the seller's documents
  kycCache,               \* cached seller profile: its documents' status
  kyc,                    \* the updateSellerKYC request in progress
  kycRd,                  \* the profile read beside it
  adminDoc,               \* the admin document updateSafe is called on
  adminStored,            \* what the last successful save() persisted of it
  adminCall               \* the updateSafe call in progress

schedVars == <<initialInterval, nodeEnv, dashboardUpdateInterval,
               updateIntervalId, recomputeTimers, readjustTimerArmed,
               ticksInFlight, shutdownRequested, readjustedSinceStop, exited,
               exitCause, loadSignal, prevInterval, publishedAfterStop, lastOp>>

profVars == <<entity, store, cache, mut, rd, invalidationFailed>>

kycVars == <<kycDocs, kycCache, kyc, kycRd>>

adminVars == <<adminDoc, adminStored, adminCall>>

vars == <<schedVars, profVars, kycVars, adminVars>>

(***************************************************************************)
(* Scheduler                                                               *)
(***************************************************************************)
\* setInterval returns a new Timeout object: a handle no live reference holds
FreshTimer ==
  CHOOSE t \in TimerIds :
    /\ t \notin recomputeTimers \cup {updateIntervalId}
    /\ \A u \in TimerIds :
         u \notin recomputeTimers \cup {updateIntervalId} => t <= u

HasFreshTimer == \E t \in TimerIds : t \notin recomputeTimers \cup {updateIntervalId}

\* module load: dashboardUpdateInterval = initialInterval, the recurring timer
\* and the 5-minute timer are armed
SchedInit ==
  /\ \E env \in EnvIntervalValues : initialInterval = InitialInterval(env)
  /\ nodeEnv \in NodeEnvValues
  /\ dashboardUpdateInterval = initialInterval
  /\ updateIntervalId = 1
  /\ recomputeTimers = {1}
  /\ readjustTimerArmed = TRUE
  /\ ticksInFlight = 0
  /\ shutdownRequested = FALSE
  /\ readjustedSinceStop = FALSE
  /\ exited = FALSE
  /\ exitCause = "none"
  /\ loadSignal = 0
  /\ prevInterval = initialInterval
  /\ publishedAfterStop = FALSE
  /\ lastOp = "start"

\* dashboardUpdateInterval = DASHBOARD_UPDATE_CONFIG.initialInterval
AdjustedIntervalScaling(current, load) ==
  MinOf(ScaleUp(current), maxInterval)
AdjustedInterval(current, load) == initialInterval

\* if (updateIntervalId) clearInterval(updateIntervalId)
AdjustClearExistingSkipped(timers, id) == timers
AdjustClearExisting(timers, id) == timers \ {id}

\* gracefulShutdown: if (updateIntervalId) clearInterval(updateIntervalId)
ShutdownClearActive(timers, id) == timers \ {id}

\* the 5-minute timer fires: adjustUpdateInterval().  After gracefulShutdown
\* it fires a second time before the forced exit only when its period is
\* shorter than the exit delay.
AdjustUpdateInterval ==
  /\ ~exited
  /\ readjustTimerArmed
  /\ (shutdownRequested /\ readjustedSinceStop) => readjustPeriod < forceExitDelay
  /\ HasFreshTimer
  /\ \E load \in LoadValues :
       /\ loadSignal' = load
       /\ dashboardUpdateInterval' = AdjustedInterval(dashboardUpdateInterval, load)
  /\ prevInterval' = dashboardUpdateInterval
  /\ updateIntervalId' = FreshTimer
  /\ recomputeTimers' =
       AdjustClearExisting(recomputeTimers, updateIntervalId) \cup {FreshTimer}
  /\ readjustedSinceStop' = shutdownRequested
  /\ lastOp' = "adjust"
  /\ UNCHANGED profVars
  /\ UNCHANGED kycVars
  /\ UNCHANGED adminVars
  /\ UNCHANGED <<initialInterval, nodeEnv, readjustTimerArmed, ticksInFlight,
                 shutdownRequested, exited, exitCause, publishedAfterStop>>

\* an armed recurring timer fires: the callback calls broadcastDashboardUpdates
\* and suspends on it.  A timer armed after gracefulShutdown fires before the
\* forced exit only when its interval is shorter than the exit delay.
TickFire ==
  /\ ~exited
  /\ recomputeTimers # {}
  /\ shutdownRequested => dashboardUpdateInterval < forceExitDelay
  /\ ticksInFlight < MaxInFlight
  /\ ticksInFlight' = ticksInFlight + 1
  /\ lastOp' = "tick"
  /\ UNCHANGED profVars
  /\ UNCHANGED kycVars
  /\ UNCHANGED adminVars
  /\ UNCHANGED <<initialInterval, nodeEnv, dashboardUpdateInterval,
                 updateIntervalId, recomputeTimers, readjustTimerArmed,
                 shutdownRequested, readjustedSinceStop, exited, exitCause,
                 loadSignal, prevInterval, publishedAfterStop>>

\* broadcastDashboardUpdates resolves: the aggregate went to admin-dashboard
TickResolve ==
  /\ ~exited
  /\ ticksInFlight > 0
  /\ ticksInFlight' = ticksInFlight - 1
  /\ publishedAfterStop' = (publishedAfterStop \/ shutdownRequested)
  /\ lastOp' = "tickPublished"
  /\ UNCHANGED profVars
  /\ UNCHANGED kycVars
  /\ UNCHANGED adminVars
  /\ UNCHANGED <<initialInterval, nodeEnv, dashboardUpdateInterval,
                 updateIntervalId, recomputeTimers, readjustTimerArmed,
                 shutdownRequested, readjustedSinceStop, exited, exitCause,
                 loadSignal, prevInterval>>

\* process.on('unhandledRejection'): exits unless NODE_ENV is production
UnhandledRejectionExits(env) == env # "production"

\* broadcastDashboardUpdates rejects: the timer callback has no catch, its
\* promise rejects and the unhandledRejection handler runs
TickReject ==
  /\ ~exited
  /\ ticksInFlight > 0
  /\ ticksInFlight' = ticksInFlight - 1
  /\ exited' = UnhandledRejectionExits(nodeEnv)
  /\ exitCause' = IF UnhandledRejectionExits(nodeEnv)
                    THEN "unhandledRejection" ELSE exitCause
  /\ lastOp' = "tickFailed"
  /\ UNCHANGED profVars
  /\ UNCHANGED kycVars
  /\ UNCHANGED adminVars
  /\ UNCHANGED <<initialInterval, nodeEnv, dashboardUpdateInterval,
                 updateIntervalId, recomputeTimers, readjustTimerArmed,
                 shutdownRequested, readjustedSinceStop, loadSignal,
                 prevInterval, publishedAfterStop>>

\* SIGTERM / SIGINT: gracefulShutdown()
GracefulShutdown ==
  /\ ~exited
  /\ recomputeTimers' = ShutdownClearActive(recomputeTimers, updateIntervalId)
  /\ shutdownRequested' = TRUE
  /\ lastOp' = "shutdown"
  /\ UNCHANGED profVars
  /\ UNCHANGED kycVars
  /\ UNCHANGED adminVars
  /\ UNCHANGED <<initialInterval, nodeEnv, dashboardUpdateInterval,
                 updateIntervalId, readjustTimerArmed, ticksInFlight,
                 readjustedSinceStop, exited, exitCause, loadSignal,
                 prevInterval, publishedAfterStop>>

\* server.close -> mongoose.connection.close -> process.exit(0)
CloseAndExit ==
  /\ ~exited
  /\ shutdownRequested
  /\ exited' = TRUE
  /\ exitCause' = "closed"
  /\ lastOp' = "exit"
  /\ UNCHANGED profVars
  /\ UNCHANGED kycVars
  /\ UNCHANGED adminVars
  /\ UNCHANGED <<initialInterval, nodeEnv, dashboardUpdateInterval,
                 updateIntervalId, recomputeTimers, readjustTimerArmed,
                 ticksInFlight, shutdownRequested, readjustedSinceStop,
                 loadSignal, prevInterval, publishedAfterStop>>

\* the 10 s timeout of gracefulShutdown: process.exit(1)
ForceExit ==
  /\ ~exited
  /\ shutdownRequested
  /\ exited' = TRUE
  /\ exitCause' = "forced"
  /\ lastOp' = "exit"
  /\ UNCHANGED profVars
  /\ UNCHANGED kycVars
  /\ UNCHANGED adminVars
  /\ UNCHANGED <<initialInterval, nodeEnv, dashboardUpdateInterval,
                 updateIntervalId, recomputeTimers, readjustTimerArmed,
                 ticksInFlight, shutdownRequested, readjustedSinceStop,
                 loadSignal, prevInterval, publishedAfterStop>>

(***************************************************************************)
(* Profile cache and status mutations (admin user controller)              *)
(***************************************************************************)
\* one seller and one customer; a behaviour addresses one of them
Entities == {<<"seller", 1>>, <<"customer", 1>>}
\* seller.model.js: enum ['pending', 'active', 'suspended']
Status == {"pending", "active", "suspended"}
NoDoc == "nodoc"
Absent == "absent"
ReadKinds == {"details", "realtime"}

\* `seller:${id}:profile`
CacheKey(e) == <<e[1], e[2], "profile">>
\* `seller:${id}:*`
InvalidationPattern(e) == <<e[1], e[2], "*">>
CacheKeys == {CacheKey(e) : e \in Entities}

\* a key matches a pattern when type and id agree and the last part is * or equal
Matches(pattern, key) ==
  /\ pattern[1] = key[1]
  /\ pattern[2] = key[2]
  /\ (pattern[3] = "*" \/ pattern[3] = key[3])

\* deletePattern of the cache store
DeletePattern(c, pattern) ==
  [k \in CacheKeys |-> IF Matches(pattern, k) THEN Absent ELSE c[k]]

\* rooms of the socket server
DashboardRoom == <<"admin-dashboard">>
AdminRoom(e) == <<"admin", e[1], e[2]>>
SelfRoomAsAdminRoom(e) == <<"admin", e[1], e[2]>>
SelfRoom(e) == <<e[1], e[2]>>

\* sellerSchema.pre(/^find/): a query without a status condition excludes
\* suspended sellers
DefaultFilterHides(e, st) == e[1] = "seller" /\ st = "suspended"

\* Model.findById(id) on the canonical store
FindById(e) ==
  IF store[e] = NoDoc \/ DefaultFilterHides(e, store[e])
    THEN NoDoc
    ELSE store[e]

MutIdle ==
  [pc |-> "idle", e |-> <<"seller", 1>>, status |-> "pending",
   inval |-> "none", phase |-> 1, p |-> <<"none", "none">>,
   v |-> <<"none", "none">>, tmp |-> "none", attempted |-> {}, emitted |-> {},
   response |-> 0]

RdIdle ==
  [pc |-> "idle", e |-> <<"seller", 1>>, kind |-> "details", tmp |-> "none",
   val |-> "none", fromCache |-> FALSE, clean |-> FALSE, isRealtime |-> FALSE,
   response |-> 0]

\* a handler is running for entity e
MutInFlight(e) == mut.pc \notin {"idle", "done"} /\ mut.e = e
RdInFlight(e) == rd.pc \notin {"idle", "done"} /\ rd.e = e

\* no request in progress, nothing cached
ProfQuiet ==
  /\ entity = <<"seller", 1>>
  /\ store = [e \in Entities |-> "pending"]
  /\ cache = [k \in CacheKeys |-> Absent]
  /\ mut = MutIdle
  /\ rd = RdIdle
  /\ invalidationFailed = FALSE

ProfInit ==
  /\ entity \in Entities
  /\ \E st \in Status \cup {NoDoc} :
       store = [e \in Entities |-> IF e = entity THEN st ELSE "active"]
  /\ cache = [k \in CacheKeys |-> Absent]
  /\ mut = MutIdle
  /\ rd = RdIdle
  /\ invalidationFailed = FALSE

\* the scheduler at rest, default configuration
SchedQuiet ==
  /\ initialInterval = InitialInterval(<< >>)
  /\ nodeEnv = "production"
  /\ dashboardUpdateInterval = initialInterval
  /\ updateIntervalId = 1
  /\ recomputeTimers = {1}
  /\ readjustTimerArmed = TRUE
  /\ ticksInFlight = 0
  /\ shutdownRequested = FALSE
  /\ readjustedSinceStop = FALSE
  /\ exited = FALSE
  /\ exitCause = "none"
  /\ loadSignal = 0
  /\ prevInterval = initialInterval
  /\ publishedAfterStop = FALSE
  /\ lastOp = "start"

\* PATCH .../sellers/:id/status or .../customers/:id/status arrives
StatusRequest ==
  /\ mut.pc \in {"idle", "done"}
  /\ mut.inval # "pending"
  /\ \E st \in Status :
       /\ mut' = [MutIdle EXCEPT !.pc = "find", !.e = entity, !.status = st]
       /\ rd' = IF RdInFlight(entity) THEN [rd EXCEPT !.clean = FALSE] ELSE rd
  /\ UNCHANGED <<entity, store, cache, invalidationFailed>>
  /\ UNCHANGED schedVars
  /\ UNCHANGED kycVars
  /\ UNCHANGED adminVars

\* the document was found: seller.status = status, the statusHistory entry is
\* pushed, and seller.save() is called
FoundDocInvalidatingFirst(m) == [m EXCEPT !.pc = "save", !.inval = "pending"]
FoundDoc(m) == [m EXCEPT !.pc = "save"]

\* updateSellerStatus / updateCustomerStatus: await Model.findById(id)
UpdateStatusFind ==
  /\ mut.pc = "find"
  /\ \E dbOk \in BOOLEAN :
       mut' = IF ~dbOk
                THEN [mut EXCEPT !.pc = "done", !.response = 500]
              ELSE IF FindById(mut.e) = NoDoc
                THEN [mut EXCEPT !.pc = "done", !.response = 404]
              ELSE FoundDoc(mut)
  /\ UNCHANGED <<entity, store, cache, rd, invalidationFailed>>
  /\ UNCHANGED schedVars
  /\ UNCHANGED kycVars
  /\ UNCHANGED adminVars

\* invalidateCachePattern(pattern) is called and its result is not awaited
InvalidateNotAwaited(m) == [m EXCEPT !.inval = "pending"]

\* await seller.save() returns; then, without suspending: the invalidation is
\* requested, getIO(), the admin-dashboard emit, and the first
\* getSellerProfile(id) is called
UpdateStatusSave ==
  /\ mut.pc = "save"
  /\ \E saveOk \in BOOLEAN, ioOk \in BOOLEAN, emitOk \in BOOLEAN :
       IF ~saveOk
         THEN /\ mut' = [mut EXCEPT !.pc = "done", !.response = 500]
              /\ store' = store
         ELSE /\ store' = [store EXCEPT ![mut.e] = mut.status]
              /\ mut' =
                   IF ioOk /\ emitOk
                     THEN [InvalidateNotAwaited(mut) EXCEPT
                             !.attempted = {DashboardRoom},
                             !.emitted = {<<DashboardRoom, mut.status>>},
                             !.phase = 1, !.pc = "get"]
                     ELSE [InvalidateNotAwaited(mut) EXCEPT
                             !.attempted = IF ioOk THEN {DashboardRoom} ELSE {},
                             !.pc = "done", !.response = 200]
  /\ UNCHANGED <<entity, cache, rd, invalidationFailed>>
  /\ UNCHANGED schedVars
  /\ UNCHANGED kycVars
  /\ UNCHANGED adminVars

\* the room the profile of the given phase is emitted to
PhaseRoomSelfFirst(phase, e) == IF phase = 1 THEN SelfRoom(e) ELSE AdminRoom(e)
PhaseRoom(phase, e) == IF phase = 1 THEN AdminRoom(e) ELSE SelfRoom(e)

\* getSellerProfile(id) returned val: emit it to the phase's room, then call
\* the next getSellerProfile, or leave the try block and answer 200; a throw
\* is caught and the handler answers 200
AfterProfile(m, outcome, val, emitOk) ==
  LET m1 == [m EXCEPT !.p[m.phase] = outcome, !.v[m.phase] = val,
                      !.attempted = @ \cup {PhaseRoom(m.phase, m.e)}] IN
  IF ~emitOk
    THEN [m1 EXCEPT !.pc = "done", !.response = 200]
  ELSE IF m.phase = 1
    THEN [m1 EXCEPT !.emitted = @ \cup {<<PhaseRoom(1, m.e), val>>},
                    !.phase = 2, !.pc = "get"]
  ELSE [m1 EXCEPT !.emitted = @ \cup {<<PhaseRoom(2, m.e), val>>},
                  !.pc = "done", !.response = 200]

\* getProfile threw: the catch of the handler logs and the handler answers 200
AfterProfileFailedPropagating(m) ==
  [m EXCEPT !.p[m.phase] = "failed", !.pc = "done", !.response = 500]
AfterProfileFailed(m) ==
  [m EXCEPT !.p[m.phase] = "failed", !.pc = "done", !.response = 200]

\* getSellerProfile / getCustomerProfile inside the handler: the cache read
UpdateStatusProfileGet ==
  /\ mut.pc = "get"
  /\ \E cacheOk \in BOOLEAN, emitOk \in BOOLEAN :
       mut' = IF ~cacheOk
                THEN AfterProfileFailed(mut)
              ELSE IF cache[CacheKey(mut.e)] # Absent
                THEN AfterProfile(mut, "hit", cache[CacheKey(mut.e)], emitOk)
              ELSE [mut EXCEPT !.pc = "load"]
  /\ UNCHANGED <<entity, store, cache, rd, invalidationFailed>>
  /\ UNCHANGED schedVars
  /\ UNCHANGED kycVars
  /\ UNCHANGED adminVars

\* ... the loader reads the canonical store
UpdateStatusProfileLoad ==
  /\ mut.pc = "load"
  /\ \E dbOk \in BOOLEAN :
       mut' = IF ~dbOk \/ store[mut.e] = NoDoc
                THEN AfterProfileFailed(mut)
                ELSE [mut EXCEPT !.tmp = store[mut.e], !.pc = "set"]
  /\ UNCHANGED <<entity, store, cache, rd, invalidationFailed>>
  /\ UNCHANGED schedVars
  /\ UNCHANGED kycVars
  /\ UNCHANGED adminVars

\* ... the loaded profile is written back and returned
UpdateStatusProfileSet ==
  /\ mut.pc = "set"
  /\ cache' = [cache EXCEPT ![CacheKey(mut.e)] = mut.tmp]
  /\ \E emitOk \in BOOLEAN :
       mut' = AfterProfile([mut EXCEPT !.tmp = "none"], "miss", mut.tmp, emitOk)
  /\ UNCHANGED <<entity, store, rd, invalidationFailed>>
  /\ UNCHANGED schedVars
  /\ UNCHANGED kycVars
  /\ UNCHANGED adminVars

\* the cache store acknowledges the pattern deletion
InvalidationAck ==
  /\ mut.inval = "pending"
  /\ cache' = DeletePattern(cache, InvalidationPattern(mut.e))
  /\ mut' = [mut EXCEPT !.inval = "acked"]
  /\ UNCHANGED <<entity, store, rd, invalidationFailed>>
  /\ UNCHANGED schedVars
  /\ UNCHANGED kycVars
  /\ UNCHANGED adminVars

\* the pattern deletion fails: logged and swallowed
InvalidationFail ==
  /\ mut.inval = "pending"
  /\ mut' = [mut EXCEPT !.inval = "failed"]
  /\ invalidationFailed' = TRUE
  /\ UNCHANGED <<entity, store, cache, rd>>
  /\ UNCHANGED schedVars
  /\ UNCHANGED kycVars
  /\ UNCHANGED adminVars

\* GET .../sellers/:id, .../customers/:id or POST .../realtime arrives
ReadRequest ==
  /\ rd.pc \in {"idle", "done"}
  /\ \E kind \in ReadKinds :
       rd' = [RdIdle EXCEPT !.pc = "get", !.e = entity, !.kind = kind,
                            !.clean = ~MutInFlight(entity)]
  /\ UNCHANGED <<entity, store, cache, mut, invalidationFailed>>
  /\ UNCHANGED schedVars
  /\ UNCHANGED kycVars
  /\ UNCHANGED adminVars

\* getProfile threw in a read path: getSellerDetails / getCustomerDetails go
\* on to Model.findById, getRealtimeUserData returns the error placeholder
ReadFallback(r) ==
  IF r.kind = "details"
    THEN [r EXCEPT !.pc = "fallback"]
    ELSE [r EXCEPT !.pc = "done", !.val = "error", !.response = 200]

\* getProfile returned val: the read path answers 200 with it, isRealtime true
ReadReturn(r, val, hit) ==
  [r EXCEPT !.pc = "done", !.val = val, !.tmp = "none", !.fromCache = hit,
            !.isRealtime = TRUE, !.response = 200]

\* getSellerProfile / getCustomerProfile of a read path: the cache read
ReadProfileGet ==
  /\ rd.pc = "get"
  /\ \E cacheOk \in BOOLEAN :
       rd' = IF ~cacheOk
               THEN ReadFallback(rd)
             ELSE IF cache[CacheKey(rd.e)] # Absent
               THEN ReadReturn(rd, cache[CacheKey(rd.e)], TRUE)
             ELSE [rd EXCEPT !.pc = "load"]
  /\ UNCHANGED <<entity, store, cache, mut, invalidationFailed>>
  /\ UNCHANGED schedVars
  /\ UNCHANGED kycVars
  /\ UNCHANGED adminVars

\* ... the loader reads the canonical store
ReadProfileLoad ==
  /\ rd.pc = "load"
  /\ \E dbOk \in BOOLEAN :
       rd' = IF ~dbOk \/ store[rd.e] = NoDoc
               THEN ReadFallback(rd)
               ELSE [rd EXCEPT !.tmp = store[rd.e], !.pc = "set"]
  /\ UNCHANGED <<entity, store, cache, mut, invalidationFailed>>
  /\ UNCHANGED schedVars
  /\ UNCHANGED kycVars
  /\ UNCHANGED adminVars

\* ... the loaded profile is written back and returned
ReadProfileSet ==
  /\ rd.pc = "set"
  /\ cache' = [cache EXCEPT ![CacheKey(rd.e)] = rd.tmp]
  /\ rd' = ReadReturn(rd, rd.tmp, FALSE)
  /\ UNCHANGED <<entity, store, mut, invalidationFailed>>
  /\ UNCHANGED schedVars
  /\ UNCHANGED kycVars
  /\ UNCHANGED adminVars

\* sellerProfile || await Seller.findById(id)
ReadDetailsFallback ==
  /\ rd.pc = "fallback"
  /\ \E dbOk \in BOOLEAN :
       rd' = IF ~dbOk
               THEN [rd EXCEPT !.pc = "done", !.response = 500]
             ELSE IF FindById(rd.e) = NoDoc
               THEN [rd EXCEPT !.pc = "done", !.response = 404]
             ELSE [rd EXCEPT !.pc = "done", !.val = FindById(rd.e),
                             !.response = 200]
  /\ UNCHANGED <<entity, store, cache, mut, invalidationFailed>>
  /\ UNCHANGED schedVars
  /\ UNCHANGED kycVars
  /\ UNCHANGED adminVars

\* a cache entry reaches its TTL
CacheExpire ==
  /\ \E k \in CacheKeys :
       /\ cache[k] # Absent
       /\ cache' = [cache EXCEPT ![k] = Absent]
  /\ UNCHANGED <<entity, store, mut, rd, invalidationFailed>>
  /\ UNCHANGED schedVars
  /\ UNCHANGED kycVars
  /\ UNCHANGED adminVars

(***************************************************************************)
(* adminSchema.methods.updateSafe                                          *)
(***************************************************************************)
\* enum of the admin's status
AdminStatuses == {"Active", "Inactive", "On Leave"}

\* updates carries no status key
NoStatus == "nostatus"

\* a status outside the enum
OtherStatus == "Suspended"

\* updates.status of a call
UpdateStatuses == AdminStatuses \cup {NoStatus, OtherStatus}

\* the enum validator of the status path, run by save()
Validates(doc) == doc.status \in AdminStatuses

\* a new admin document: status of the enum, statusHistory []
NewAdmin(status) == [status |-> status, statusHistory |-> << >>]

AdminCallIdle ==
  [pc |-> "idle", status |-> NoStatus, statusBefore |-> "Active",
   historyBefore |-> << >>, saved |-> FALSE]

\* Object.keys(updates).forEach: every allowed key is copied onto the document
AssignAllowed(doc, status) ==
  IF status = NoStatus THEN doc ELSE [doc EXCEPT !.status = status]

\* updates.status && updates.status !== this.status
StatusDiffers(doc, status) == status # NoStatus /\ status # doc.status

\* this.statusHistory.push({status: updates.status, ...})
PushStatusHistory(doc, status) ==
  [doc EXCEPT !.statusHistory = Append(@, status)]

\* updateSafe up to its save(): the copy first, the comparison after it
UpdateSafeDocument(doc, status) ==
  LET assigned == AssignAllowed(doc, status)
  IN  IF StatusDiffers(assigned, status)
        THEN PushStatusHistory(assigned, status)
        ELSE assigned

\* no updateSafe call in progress on a new active admin
AdminQuiet ==
  /\ adminDoc = NewAdmin("Active")
  /\ adminStored = adminDoc
  /\ adminCall = AdminCallIdle

\* admin.updateSafe(updates) is called and runs up to await this.save()
UpdateSafeCall ==
  /\ adminCall.pc \in {"idle", "done"}
  /\ Len(adminDoc.statusHistory) < MaxHistory
  /\ \E status \in UpdateStatuses :
       /\ adminDoc' = UpdateSafeDocument(adminDoc, status)
       /\ adminCall' = [pc |-> "save", status |-> status,
                        statusBefore |-> adminDoc.status,
                        historyBefore |-> adminDoc.statusHistory,
                        saved |-> FALSE]
  /\ UNCHANGED adminStored
  /\ UNCHANGED schedVars
  /\ UNCHANGED profVars
  /\ UNCHANGED kycVars

\* await this.save() resolves or rejects; the document in memory keeps the
\* changes either way
UpdateSafeSave ==
  /\ adminCall.pc = "save"
  /\ \E ok \in {b \in BOOLEAN : b => Validates(adminDoc)} :
       /\ adminStored' = IF ok THEN adminDoc ELSE adminStored
       /\ adminCall' = [adminCall EXCEPT !.pc = "done", !.saved = ok]
  /\ UNCHANGED adminDoc
  /\ UNCHANGED schedVars
  /\ UNCHANGED profVars
  /\ UNCHANGED kycVars

(***************************************************************************)
(* updateSellerKYC                                                         *)
(***************************************************************************)
TheSeller == <<"seller", 1>>
\* req.body.status of the KYC request
KycDecisions == {"approved", "rejected", "pending"}
DocStatuses == {"verified", "pending", "rejected"}

\* doc.status = status === 'approved' ? 'verified' :
\*              status === 'rejected' ? 'rejected' : 'pending'
DocStatusFor(decision) ==
  IF decision = "approved" THEN "verified"
  ELSE IF decision = "rejected" THEN "rejected"
  ELSE "pending"

KycIdle ==
  [pc |-> "idle", decision |-> "pending", invalidated |-> FALSE,
   emitted |-> {}, response |-> 0]

KycRdIdle ==
  [pc |-> "idle", tmp |-> "none", val |-> "none", fromCache |-> FALSE,
   clean |-> FALSE]

KycInFlight == kyc.pc \notin {"idle", "done"}
KycRdInFlight == kycRd.pc \notin {"idle", "done"}

\* no KYC request in progress
KycQuiet ==
  /\ kycDocs = "pending"
  /\ kycCache = Absent
  /\ kyc = KycIdle
  /\ kycRd = KycRdIdle

\* PATCH .../sellers/:id/kyc arrives
KycRequest ==
  /\ kyc.pc \in {"idle", "done"}
  /\ \E d \in KycDecisions :
       kyc' = [KycIdle EXCEPT !.pc = "find", !.decision = d]
  /\ kycRd' = IF KycRdInFlight THEN [kycRd EXCEPT !.clean = FALSE] ELSE kycRd
  /\ UNCHANGED <<kycDocs, kycCache>>
  /\ UNCHANGED schedVars
  /\ UNCHANGED profVars
  /\ UNCHANGED adminVars

\* updateSellerKYC: await Seller.findById(id)
UpdateKycFind ==
  /\ kyc.pc = "find"
  /\ \E dbOk \in BOOLEAN :
       kyc' = IF ~dbOk
                THEN [kyc EXCEPT !.pc = "done", !.response = 500]
              ELSE IF FindById(TheSeller) = NoDoc
                THEN [kyc EXCEPT !.pc = "done", !.response = 404]
              ELSE [kyc EXCEPT !.pc = "save"]
  /\ UNCHANGED <<kycDocs, kycCache, kycRd>>
  /\ UNCHANGED schedVars
  /\ UNCHANGED profVars
  /\ UNCHANGED adminVars

\* what updateSellerKYC does between the save and the response: it logs
KycAfterSave(k) == [k EXCEPT !.pc = "done", !.response = 200]

\* await seller.save() returns, the handler answers
UpdateKycSave ==
  /\ kyc.pc = "save"
  /\ \E saveOk \in BOOLEAN :
       IF ~saveOk
         THEN /\ kyc' = [kyc EXCEPT !.pc = "done", !.response = 500]
              /\ kycDocs' = kycDocs
         ELSE /\ kycDocs' = DocStatusFor(kyc.decision)
              /\ kyc' = KycAfterSave(kyc)
  /\ UNCHANGED <<kycCache, kycRd>>
  /\ UNCHANGED schedVars
  /\ UNCHANGED profVars
  /\ UNCHANGED adminVars

\* GET .../sellers/:id arrives
KycReadRequest ==
  /\ kycRd.pc \in {"idle", "done"}
  /\ kycRd' = [KycRdIdle EXCEPT !.pc = "get", !.clean = ~KycInFlight]
  /\ UNCHANGED <<kycDocs, kycCache, kyc>>
  /\ UNCHANGED schedVars
  /\ UNCHANGED profVars
  /\ UNCHANGED adminVars

\* getSellerProfile of the read: the cache read
KycReadGet ==
  /\ kycRd.pc = "get"
  /\ kycRd' = IF kycCache # Absent
                THEN [kycRd EXCEPT !.pc = "done", !.val = kycCache,
                                   !.fromCache = TRUE]
                ELSE [kycRd EXCEPT !.pc = "load"]
  /\ UNCHANGED <<kycDocs, kycCache, kyc>>
  /\ UNCHANGED schedVars
  /\ UNCHANGED profVars
  /\ UNCHANGED adminVars

\* ... the loader reads the canonical store
KycReadLoad ==
  /\ kycRd.pc = "load"
  /\ kycRd' = [kycRd EXCEPT !.tmp = kycDocs, !.pc = "set"]
  /\ UNCHANGED <<kycDocs, kycCache, kyc>>
  /\ UNCHANGED schedVars
  /\ UNCHANGED profVars
  /\ UNCHANGED adminVars

\* ... the loaded profile is written back and returned
KycReadSet ==
  /\ kycRd.pc = "set"
  /\ kycCache' = kycRd.tmp
  /\ kycRd' = [kycRd EXCEPT !.pc = "done", !.val = kycRd.tmp, !.tmp = "none"]
  /\ UNCHANGED <<kycDocs, kyc>>
  /\ UNCHANGED schedVars
  /\ UNCHANGED profVars
  /\ UNCHANGED adminVars

\* the cached profile reaches its TTL
KycCacheExpire ==
  /\ kycCache # Absent
  /\ kycCache' = Absent
  /\ UNCHANGED <<kycDocs, kyc, kycRd>>
  /\ UNCHANGED schedVars
  /\ UNCHANGED profVars
  /\ UNCHANGED adminVars

KycInit ==
  /\ SchedQuiet
  /\ entity = TheSeller
  /\ \E st \in Status \cup {NoDoc} :
       store = [e \in Entities |-> IF e = TheSeller THEN st ELSE "active"]
  /\ cache = [k \in CacheKeys |-> Absent]
  /\ mut = MutIdle
  /\ rd = RdIdle
  /\ invalidationFailed = FALSE
  /\ kycDocs \in DocStatuses
  /\ kycCache = Absent
  /\ kyc = KycIdle
  /\ kycRd = KycRdIdle
  /\ AdminQuiet

KycNext ==
  \/ KycRequest
  \/ UpdateKycFind
  \/ UpdateKycSave
  \/ KycReadRequest
  \/ KycReadGet
  \/ KycReadLoad
  \/ KycReadSet
  \/ KycCacheExpire

KycSpec == KycInit /\ [][KycNext]_vars

AdminInit ==
  /\ SchedQuiet
  /\ ProfQuiet
  /\ KycQuiet
  /\ \E status \in AdminStatuses : adminDoc = NewAdmin(status)
  /\ adminStored = adminDoc
  /\ adminCall = AdminCallIdle

AdminNext ==
  \/ UpdateSafeCall
  \/ UpdateSafeSave

AdminSpec == AdminInit /\ [][AdminNext]_vars

ProfileInit == ProfInit /\ SchedQuiet /\ KycQuiet /\ AdminQuiet

ProfileNext ==
  \/ StatusRequest
  \/ UpdateStatusFind
  \/ UpdateStatusSave
  \/ UpdateStatusProfileGet
  \/ UpdateStatusProfileLoad
  \/ UpdateStatusProfileSet
  \/ InvalidationAck
  \/ InvalidationFail
  \/ ReadRequest
  \/ ReadProfileGet
  \/ ReadProfileLoad
  \/ ReadProfileSet
  \/ ReadDetailsFallback
  \/ CacheExpire

ProfileSpec == ProfileInit /\ [][ProfileNext]_vars

Init == SchedInit /\ ProfQuiet /\ KycQuiet /\ AdminQuiet

Next ==
  \/ AdjustUpdateInterval
  \/ TickFire
  \/ TickResolve
  \/ TickReject
  \/ GracefulShutdown
  \/ CloseAndExit
  \/ ForceExit

Spec == Init /\ [][Next]_vars

(***************************************************************************)
(* Properties of the scheduler                                             *)
(***************************************************************************)
\* C1: in every state minInterval <= dashboardUpdateInterval <= maxInterval,
\* for every configured initial interval.
C1_IntervalWithinBounds ==
  /\ minInterval <= dashboardUpdateInterval
  /\ dashboardUpdateInterval <= maxInterval

\* C2: until stop is requested exactly one recurring recompute timer is
\* armed, and it is the one the module holds the handle of; never two, never
\* none, also after every re-adjust.
C2_ExactlyOneRecomputeTimer ==
  ~shutdownRequested =>
    /\ Cardinality(recomputeTimers) = 1
    /\ recomputeTimers = {updateIntervalId}

\* a re-adjust has replaced the timer while the scheduler is running
C2_Witness ==
  /\ lastOp = "adjust"
  /\ ~shutdownRequested
  /\ updateIntervalId # 1
  /\ recomputeTimers = {updateIntervalId}

\* C3: once gracefulShutdown has run, neither the recurring recompute timer
\* nor the 5-minute timer is armed, in that state and in every later one.
C3_StopCancelsBothTimers ==
  shutdownRequested => (recomputeTimers = {} /\ ~readjustTimerArmed)

\* C4: after stop was requested no aggregate dashboard broadcast is published
\* and no timer callback brings the process down.
C4_NoPublishAfterStop ==
  /\ ~publishedAfterStop
  /\ ~(shutdownRequested /\ exitCause = "unhandledRejection")

\* C5: a failed tick changes nothing but itself: the timers stay as they
\* are, the interval is kept, the process does not exit and no further
\* recompute is started by the failing tick.
C5_FailedTickIsSkipped ==
  [][lastOp' = "tickFailed" =>
       /\ exited' = exited
       /\ recomputeTimers' = recomputeTimers
       /\ readjustTimerArmed' = readjustTimerArmed
       /\ dashboardUpdateInterval' = dashboardUpdateInterval
       /\ ticksInFlight' = ticksInFlight - 1]_vars

\* C6: a re-adjust under a load above the threshold leaves
\* dashboardUpdateInterval = min(previous * scaleFactor, maxInterval).
C6_HighLoadScales ==
  (lastOp = "adjust" /\ loadSignal > loadFactorThreshold) =>
    dashboardUpdateInterval = MinOf(ScaleUp(prevInterval), maxInterval)

\* C7: a re-adjust under a load not above the threshold leaves
\* dashboardUpdateInterval = initialInterval, whatever it was before.
C7_NormalLoadResets ==
  (lastOp = "adjust" /\ loadSignal <= loadFactorThreshold) =>
    dashboardUpdateInterval = initialInterval

\* a re-adjust at normal load has run with the default configuration
C7_Witness ==
  /\ lastOp = "adjust"
  /\ loadSignal <= loadFactorThreshold
  /\ initialInterval = 30000
  /\ dashboardUpdateInterval = 30000

(***************************************************************************)
(* Properties of the profile cache under status mutations                  *)
(***************************************************************************)
\* C8: whenever the profile re-fetch of a status mutation has been issued,
\* the invalidation of the entity's key pattern has already been
\* acknowledged by the cache store.
C8_InvalidationAckedBeforeRefetch ==
  mut.pc \in {"get", "load", "set"} => mut.inval = "acked"

\* C9: the first getProfile of the entity after invalidate has returned to
\* the handler is not served from the cache.
C9_NoCacheHitAfterInvalidate ==
  mut.p[1] # "hit"

\* C10: a profile read that begins after the status mutation was answered,
\* with no mutation running beside it and no invalidation having failed,
\* does not return from the cache a value other than the stored one.
C10_NoStaleReadAfterAck ==
  ~(/\ rd.pc = "done"
    /\ rd.fromCache
    /\ rd.clean
    /\ ~invalidationFailed
    /\ rd.val # store[rd.e])

(***************************************************************************)
(* Properties of the mutation handlers                                     *)
(***************************************************************************)
\* C11: a handler that has persisted a change and answered has invalidated
\* the entity's key pattern and triggered the update broadcast, so a read
\* that begins after the answer is not served the profile cached before the
\* change.
C11_PersistingHandlersInvalidate ==
  /\ kyc.response = 200 => (kyc.invalidated /\ kyc.emitted # {})
  /\ mut.response = 200 => mut.inval # "none"
  /\ ~(/\ kycRd.pc = "done"
       /\ kycRd.fromCache
       /\ kycRd.clean
       /\ kycRd.val # kycDocs)

\* the rooms the current status mutation has published to
PublishedRooms == {x[1] : x \in mut.emitted}

\* the three channels of a status change of the entity of the current request
ExpectedTargets ==
  {<<"admin-dashboard">>, <<"admin", mut.e[1], mut.e[2]>>, <<mut.e[1], mut.e[2]>>}

\* C12: a status change of entity (type, id) is published to admin-dashboard,
\* admin-<type>-<id> and <type>-<id> and to nothing else; a broadcast that
\* runs to its end has addressed exactly these three, on every request.
C12_ExactlyThreeTargets ==
  /\ mut.attempted \subseteq ExpectedTargets
  /\ PublishedRooms \subseteq mut.attempted
  /\ (mut.pc = "done" /\ mut.p[2] \in {"hit", "miss"}) =>
       (mut.attempted = ExpectedTargets /\ Cardinality(mut.attempted) = 3)

\* a status change of the customer has been published to all three channels
C12_Witness ==
  /\ mut.pc = "done"
  /\ mut.e = <<"customer", 1>>
  /\ PublishedRooms = ExpectedTargets
  /\ Cardinality(mut.emitted) = 3

\* C13: a status mutation of a seller that met no failure has requested the
\* invalidation before the profile re-fetch and has published exactly one
\* payload to each of the three targets, every payload carrying the new status.
C13_AllPayloadsCarryNewStatus ==
  /\ mut.p[1] # "none" => mut.inval # "none"
  /\ (/\ mut.pc = "done"
      /\ mut.e[1] = "seller"
      /\ mut.response = 200
      /\ ~invalidationFailed
      /\ \A k \in {1, 2} : mut.p[k] \in {"hit", "miss"}
      /\ PublishedRooms = mut.attempted) =>
       /\ Cardinality(mut.emitted) = 3
       /\ PublishedRooms = ExpectedTargets
       /\ \A x \in mut.emitted : x[2] = mut.status

\* the profile of target t could not be resolved
ResolveFailedFor(t) ==
  \/ t = <<"admin", mut.e[1], mut.e[2]>> /\ mut.phase = 1 /\ mut.p[1] = "failed"
  \/ t = <<mut.e[1], mut.e[2]>> /\ mut.phase = 2 /\ mut.p[2] = "failed"

\* C14: when the broadcast of a status change has ended, the publish to every
\* target whose own profile could be resolved has been attempted, whatever
\* happened at the other targets.
C14_PublishesAttemptedIndependently ==
  (mut.pc = "done" /\ mut.response = 200 /\ mut.attempted # {}) =>
    \A t \in ExpectedTargets : t \in mut.attempted \/ ResolveFailedFor(t)

\* delivery to the self channel failed and no other delivery did
OnlySelfDeliveryFailed ==
  /\ <<mut.e[1], mut.e[2]>> \in mut.attempted \ PublishedRooms
  /\ \A t \in mut.attempted \ PublishedRooms : t = <<mut.e[1], mut.e[2]>>
  /\ \A k \in {1, 2} : mut.p[k] # "failed"

\* C15: when only the delivery to the self channel fails, the broadcast ends
\* with the handler answering 200 and the publishes to admin-dashboard and to
\* the admin channel of the entity have been made.
C15_SelfChannelFailureIsContained ==
  (mut.pc = "done" /\ OnlySelfDeliveryFailed) =>
    /\ mut.response = 200
    /\ {<<"admin-dashboard">>, <<"admin", mut.e[1], mut.e[2]>>}
         \subseteq PublishedRooms

\* the self delivery failed after the two other publishes
C15_Witness ==
  /\ mut.pc = "done"
  /\ OnlySelfDeliveryFailed
  /\ Cardinality(mut.emitted) = 2
  /\ mut.response = 200

\* C16: once the change is saved, whatever fails in the invalidation, the
\* socket lookup, the profile re-fetch or a publish, the stored status stays
\* the requested one and the handler answers 200.
C16_BroadcastFailuresDoNotPropagate ==
  mut.inval # "none" =>
    /\ store[mut.e] = mut.status
    /\ mut.pc = "done" => mut.response = 200

\* the handler has answered although the profile re-fetch failed
C16_Witness ==
  /\ mut.pc = "done"
  /\ mut.p[1] = "failed"
  /\ mut.response = 200
  /\ store[mut.e] = mut.status

\* C17: when getProfile fails, getSellerDetails / getCustomerDetails answer
\* 200 with the entity read from the canonical store and isRealtime false,
\* and getRealtimeUserData answers 200 with the error placeholder for the id.
C17_ReadPathsFallBack ==
  /\ (/\ rd.pc = "done"
      /\ rd.kind = "details"
      /\ ~rd.isRealtime
      /\ rd.response # 500
      /\ store[rd.e] # NoDoc) =>
       (rd.response = 200 /\ rd.val \in Status)
  /\ (rd.pc = "done" /\ rd.kind = "realtime" /\ ~rd.isRealtime) =>
       (rd.response = 200 /\ rd.val = "error")

\* C18: a mutation handler that has answered 200 has requested the
\* invalidation of the mutated entity's cache keys before answering.
C18_InvalidationRequestedBeforeResponse ==
  /\ mut.response = 200 => mut.inval # "none"
  /\ kyc.response = 200 => kyc.invalidated

\* C19: a status handler that answers 404 or 500 has requested no
\* invalidation and published nothing; invalidation and publishes happen
\* only once the requested status is stored, and a handler that ends without
\* having saved answers 404 or 500.
C19_NothingBeforePersistence ==
  /\ mut.response \in {404, 500} =>
       (mut.inval = "none" /\ mut.attempted = {} /\ mut.emitted = {})
  /\ (mut.inval # "none" \/ mut.attempted # {} \/ mut.emitted # {}) =>
       store[mut.e] = mut.status
  /\ (mut.pc = "done" /\ mut.inval = "none") => mut.response \in {404, 500}

\* a status request has ended in an error answer while a profile is cached
C19_Witness ==
  /\ mut.pc = "done"
  /\ mut.response \in {404, 500}
  /\ mut.inval = "none"
  /\ cache[CacheKey(mut.e)] # Absent

\* C20: updateSellerStatus on an existing seller, whatever its status, never
\* answers 404, and unless the store fails it leaves the requested status
\* stored.
C20_ExistingSellerIsFound ==
  (/\ mut.pc = "done"
   /\ mut.e[1] = "seller"
   /\ store[mut.e] # NoDoc
   /\ mut.response # 500) =>
    (mut.response = 200 /\ store[mut.e] = mut.status)

(***************************************************************************)
(* Properties of updateSafe and of the tick                                *)
(***************************************************************************)
\* C21: an updateSafe call with a status that differs from the admin's status
\* before the call has appended exactly one statusHistory entry, recording
\* the new status; a call with no status or with the same status has
\* appended none.
C21_StatusChangeIsRecorded ==
  adminCall.pc \in {"save", "done"} =>
    IF adminCall.status # NoStatus /\ adminCall.status # adminCall.statusBefore
      THEN adminDoc.statusHistory =
             Append(adminCall.historyBefore, adminCall.status)
      ELSE adminDoc.statusHistory = adminCall.historyBefore

\* C22: at most one timer-started broadcastDashboardUpdates call is in
\* flight at any time.
C22_AtMostOneTickInFlight == ticksInFlight <= 1

====
